---- MODULE Spec2Model ----
(***************************************************************************)
(* A model of tuya_dump_ex.py: the checksum, the data-unit decoder         *)
(* (parse_data_units), the packet decoder (parse_tuya_packet) and the      *)
(* marker-driven read loop of read_and_hexdump_packets.                    *)
(*                                                                         *)
(* Bytes are the integers 0..255 and a bytes object is a sequence of       *)
(* them.  Python offsets are 0-based; the operators below keep 0-based     *)
(* offsets and convert at the point of indexing.                           *)
(*                                                                         *)
(* The specifications share the variables:                               *)
(*   Spec        the read loop fed a stream in arbitrary read chunks       *)
(*   SpecOneRead the read loop fed noise ++ frame ++ noise in one read     *)
(*   SpecPacket  parse_tuya_packet applied to frames from a bounded set    *)
(*   SpecUnits   the loop of parse_data_units, one iteration per step      *)
(***************************************************************************)
EXTENDS Integers, Sequences, FiniteSets, TLC

VARIABLES
    \* read_and_hexdump_packets
    stream,        \* the bytes the serial device will deliver, in order
    rd,            \* how many of them ser.read has returned so far
    reads,         \* lengths of the non-empty chunks returned so far
    chunk,         \* local `chunk`
    buffer,        \* local `buffer`; each cell is [b |-> byte, at |-> its 0-based offset in stream]
    drain_in,      \* `buffer` as it stood when the current/last drain began (line 172)
    unemptied,     \* every cell appended to `buffer` since it was last set to b'' (line 155 or 188)
    packet_count,  \* local `packet_count`
    attempts,      \* the calls parse_tuya_packet(PACKET_MARKER + packet_data) made so far
    orphans,       \* the byte ranges printed as "Unexpected data before packet marker"
    emitted,       \* every byte handed to hexdump_packet so far (lines 179 and 195), in order
    pc,            \* "read" (line 168), "drain" (line 174), "off"
    \* parse_tuya_packet
    pk_data,       \* argument packet_data
    pk_result,     \* returned dictionary, or NoResult
    pk_prev,       \* the frame before a payload byte was changed, or <<>>
    pk_pc,         \* "call", "done", "off"
    \* parse_data_units
    du_data,       \* argument data
    du_offset,     \* local `offset`
    parsed_dps,    \* local `parsed_dps`
    du_pc          \* "while" (line 26), "done" (line 89), "off"

vars == <<stream, rd, reads, chunk, buffer, drain_in, unemptied, packet_count, attempts,
          orphans, emitted, pc, pk_data, pk_result, pk_prev, pk_pc,
          du_data, du_offset, parsed_dps, du_pc>>

streamVars == <<stream, rd, reads, chunk, buffer, drain_in, unemptied, packet_count,
                attempts, orphans, emitted, pc>>
packetVars == <<pk_data, pk_result, pk_prev, pk_pc>>
unitVars == <<du_data, du_offset, parsed_dps, du_pc>>

(***************************************************************************)
(* Bytes and Python's bytes operations                                     *)
(***************************************************************************)
Byte == 0..255

\* PACKET_MARKER = b'\x55\xaa'
PACKET_MARKER == <<85, 170>>

Min(a, b) == IF a < b THEN a ELSE b

\* s[a:b] for 0 <= a, 0 <= b: Python clamps both ends to len(s)
slice(s, a, b) == SubSeq(s, a + 1, Min(b, Len(s)))

\* s[a:]
slice_from(s, a) == SubSeq(s, a + 1, Len(s))

\* the built-in sum over a bytes object
RECURSIVE sum(_)
sum(s) == IF s = <<>> THEN 0 ELSE Head(s) + sum(Tail(s))

\* bytes.find(sub): the lowest 0-based index where sub occurs in s, or -1
find(s, sub) ==
    LET hits == {i \in 0..(Len(s) - Len(sub)) : slice(s, i, i + Len(sub)) = sub}
    IN IF hits = {} THEN -1 ELSE CHOOSE i \in hits : \A j \in hits : i <= j

\* `sub in s`
contains(s, sub) == find(s, sub) # -1

\* Faulty variant: the sum masked to 7 bits
calculate_checksum_7bit(d) == sum(d) % 128

\* calculate_checksum(data), line 15
calculate_checksum(d) == sum(d) % 256

(***************************************************************************)
(* parse_data_units                                                        *)
(***************************************************************************)
\* struct.unpack('>BBH', h): two unsigned bytes and a big-endian unsigned short
unpack_BBH(h) ==
    [dp_id |-> h[1], dp_type |-> h[2], dp_length |-> h[3] * 256 + h[4]]

\* Faulty variant: the four bytes read little-endian ('<i')
unpack_i_le(v) ==
    IF v[4] < 128
    THEN v[4] * 16777216 + v[3] * 65536 + v[2] * 256 + v[1]
    ELSE (v[4] - 256) * 16777216 + v[3] * 65536 + v[2] * 256 + v[1]

\* struct.unpack('>i', v)[0]: big-endian two's complement, 32 bits
unpack_i(v) ==
    IF v[1] < 128
    THEN v[1] * 16777216 + v[2] * 65536 + v[3] * 256 + v[4]
    ELSE (v[1] - 256) * 16777216 + v[2] * 65536 + v[3] * 256 + v[4]

\* struct.unpack('>I', v)[0]: big-endian unsigned, 32 bits.  The value is
\* hi * 65536 + lo; it is kept as its two 16-bit halves because values from
\* 2^31 up do not fit the checker's integers.
unpack_I(v) == [hi |-> v[1] * 256 + v[2], lo |-> v[3] * 256 + v[4]]

\* int.from_bytes(v, 'big') for the one-byte v of the enum branch
int_from_bytes(v) == v[1]

\* v.decode('utf-8', errors='ignore'): the code points of the well-formed
\* UTF-8 sequences of v, every ill-formed byte (or truncated sequence) dropped
RECURSIVE utf8_ignore(_)
utf8_ignore(s) ==
    IF s = <<>> THEN <<>>
    ELSE
      LET b0 == s[1]
          n == Len(s)
          need == IF b0 < 128 THEN 1
                  ELSE IF b0 \in 194..223 THEN 2
                  ELSE IF b0 \in 224..239 THEN 3
                  ELSE IF b0 \in 240..244 THEN 4
                  ELSE 0
          lo2 == IF b0 = 224 THEN 160 ELSE IF b0 = 240 THEN 144 ELSE 128
          hi2 == IF b0 = 237 THEN 159 ELSE IF b0 = 244 THEN 143 ELSE 191
          ok2 == n >= 2 /\ s[2] \in lo2..hi2
          ok3 == ok2 /\ n >= 3 /\ s[3] \in 128..191
          ok4 == ok3 /\ n >= 4 /\ s[4] \in 128..191
      IN CASE need = 1 -> <<b0>> \o utf8_ignore(slice_from(s, 1))
           [] need = 2 ->
                IF ok2
                THEN <<(b0 - 192) * 64 + (s[2] - 128)>> \o utf8_ignore(slice_from(s, 2))
                ELSE utf8_ignore(slice_from(s, 1))
           [] need = 3 ->
                IF ok3
                THEN <<(b0 - 224) * 4096 + (s[2] - 128) * 64 + (s[3] - 128)>>
                     \o utf8_ignore(slice_from(s, 3))
                ELSE utf8_ignore(slice_from(s, IF ok2 THEN 2 ELSE 1))
           [] need = 4 ->
                IF ok4
                THEN <<(b0 - 240) * 262144 + (s[2] - 128) * 4096
                       + (s[3] - 128) * 64 + (s[4] - 128)>>
                     \o utf8_ignore(slice_from(s, 4))
                ELSE utf8_ignore(slice_from(s, IF ok3 THEN 3 ELSE IF ok2 THEN 2 ELSE 1))
           [] OTHER -> utf8_ignore(slice_from(s, 1))

\* The f-strings "... ({n} bytes)" and "Unknown DP type ({n})"
fstr(prefix, n, suffix) == prefix \o ToString(n) \o suffix

\* Faulty variant: the raw value is not kept in the error dictionary
decode_error_no_raw(msg, dp_value) == [py |-> "dict", error |-> msg, raw_value |-> <<>>]

\* A decoded value carries the Python type it has: bytes, bool, int, str, or
\* the dictionary {"error": ..., "raw_value": ...}
decode_error(msg, dp_value) == [py |-> "dict", error |-> msg, raw_value |-> dp_value]

\* Faulty variant: only the first byte is looked at
bool_value_first_byte(dp_value) == Len(dp_value) >= 1 /\ dp_value[1] = 1

\* Line 60: bool(dp_value == b'\x01')
bool_value(dp_value) == dp_value = <<1>>

\* Lines 55-79: the decoded value of a data unit by its type tag
decode_value(dp_type, dp_length, dp_value) ==
    CASE dp_type = 0 -> [py |-> "bytes", v |-> dp_value]
      [] dp_type = 1 -> [py |-> "bool", v |-> bool_value(dp_value)]
      [] dp_type = 2 ->
           IF dp_length = 4
           THEN [py |-> "int", v |-> unpack_i(dp_value)]
           ELSE decode_error(fstr("Invalid length for value type (", dp_length, " bytes)"), dp_value)
      [] dp_type = 3 -> [py |-> "str", v |-> utf8_ignore(dp_value)]
      [] dp_type = 4 ->
           IF dp_length = 1
           THEN [py |-> "int", v |-> int_from_bytes(dp_value)]
           ELSE decode_error(fstr("Invalid length for enum type (", dp_length, " bytes)"), dp_value)
      [] dp_type = 5 ->
           IF dp_length = 4
           THEN [py |-> "int", v |-> unpack_I(dp_value)]
           ELSE decode_error(fstr("Invalid length for bitmap type (", dp_length, " bytes)"), dp_value)
      [] OTHER -> decode_error(fstr("Unknown DP type (", dp_type, ")"), dp_value)

\* Faulty variant: the loop is entered with the cursor at the end of the data
more_units_le(d, off) == off <= Len(d)

\* Line 26: while offset < len(data)
more_units(d, off) == off < Len(d)

\* Faulty variant: a header that ends where the data ends counts as cut short
header_incomplete_ge(d, off) == off + 4 >= Len(d)

\* Line 28: fewer than 4 bytes remain at the cursor
header_incomplete(d, off) == off + 4 > Len(d)

\* Faulty variant: the cursor is not moved past the header
after_header_stuck(off) == off

\* Line 38: offset += 4
after_header(off) == off + 4

\* Faulty variant: the cursor moved one byte too far past the value
after_value_plus_one(off4, dp_length) == off4 + dp_length + 1

\* Line 52: offset += dp_length
after_value(off4, dp_length) == off4 + dp_length

\* Line 41, evaluated after the header at off was unpacked and offset += 4
value_incomplete(d, off) ==
    after_header(off) + unpack_BBH(slice(d, off, off + 4)).dp_length > Len(d)

\* One iteration of the while loop of parse_data_units (lines 27-87) begun
\* with offset = off < len(d) and parsed_dps = parsed: the values of offset
\* and parsed_dps it leaves, and whether it left through a break.  The
\* except branch of lines 34-36 cannot be taken: the slice unpacked at line
\* 33 has exactly 4 bytes once line 28 has passed.
du_iteration(d, off, parsed) ==
    IF header_incomplete(d, off)
    THEN [offset |-> off,
          parsed_dps |-> Append(parsed, [error |-> "Incomplete data unit",
                                         raw_data |-> slice_from(d, off)]),
          brk |-> TRUE]
    ELSE
      LET h == unpack_BBH(slice(d, off, off + 4))
          off4 == after_header(off)
      IN IF off4 + h.dp_length > Len(d)
         THEN [offset |-> off4,
               parsed_dps |-> Append(parsed,
                   [error |-> fstr("Incomplete data unit value (expected ", h.dp_length, " bytes)"),
                    dp_id |-> h.dp_id,
                    dp_type |-> h.dp_type,
                    dp_length |-> h.dp_length,
                    raw_data |-> slice_from(d, off4 - 4)]),
               brk |-> TRUE]
         ELSE
           LET dp_value == slice(d, off4, off4 + h.dp_length)
           IN [offset |-> after_value(off4, h.dp_length),
               parsed_dps |-> Append(parsed,
                   [dp_id |-> h.dp_id,
                    dp_type |-> h.dp_type,
                    dp_length |-> h.dp_length,
                    dp_value |-> decode_value(h.dp_type, h.dp_length, dp_value),
                    raw_value |-> dp_value]),
               brk |-> FALSE]

\* The loop from a given cursor to the return of line 89
RECURSIVE du_loop(_, _, _)
du_loop(d, off, parsed) ==
    IF ~more_units(d, off) THEN parsed
    ELSE LET r == du_iteration(d, off, parsed)
         IN IF r.brk THEN r.parsed_dps ELSE du_loop(d, r.offset, r.parsed_dps)

\* parse_data_units(data)
parse_data_units(d) == du_loop(d, 0, <<>>)

(***************************************************************************)
(* parse_tuya_packet                                                       *)
(***************************************************************************)
\* Faulty variant: the command read little-endian ('<BHB')
unpack_BHB_le(h) ==
    [version |-> h[1], command |-> h[3] * 256 + h[2], data_length |-> h[4]]

\* struct.unpack('>BHB', h): a byte, a big-endian unsigned short, a byte
unpack_BHB(h) ==
    [version |-> h[1], command |-> h[2] * 256 + h[3], data_length |-> h[4]]

\* `"error" in parsed_packet`
is_error(r) == "error" \in DOMAIN r

\* Faulty variant: the minimum taken one byte too long
packet_too_short_8(pd) == Len(pd) < 8

\* Line 99: the frame cannot hold marker, header and checksum
packet_too_short(pd) == Len(pd) < 7

\* Faulty variant: the checksum taken over VERSION..PAYLOAD, marker left out
checksum_span_no_marker(pd, data_length) == slice(pd, 2, 6 + data_length)

\* Line 114: the range the checksum is calculated over
checksum_span(pd, data_length) == slice(pd, 0, 6 + data_length)

\* Faulty variant: the checksum taken from the end of what was passed in
received_checksum_last(pd, data_length) == pd[Len(pd)]

\* Line 112: packet_data[6 + data_length]
received_checksum_at(pd, data_length) == pd[6 + data_length + 1]

\* parse_tuya_packet(packet_data), lines 99-134.  The except branch of lines
\* 104-105 cannot be taken: packet_data[2:6] has 4 bytes once line 99 passed.
parse_tuya_packet(pd) ==
    IF packet_too_short(pd)
    THEN [error |-> "Packet too short", raw_data |-> pd]
    ELSE
      LET h == unpack_BHB(slice(pd, 2, 6))
          expected_packet_size == 6 + h.data_length + 1
      IN IF Len(pd) < expected_packet_size
         THEN [error |-> fstr("Packet too short for declared data length (", h.data_length, " bytes)"),
               raw_data |-> pd]
         ELSE
           LET data == slice(pd, 6, 6 + h.data_length)
               received_checksum == received_checksum_at(pd, h.data_length)
               calculated_checksum == calculate_checksum(checksum_span(pd, h.data_length))
           IN IF calculated_checksum # received_checksum
              THEN [error |-> "Checksum mismatch",
                    calculated |-> calculated_checksum,
                    received |-> received_checksum,
                    raw_data |-> pd]
              ELSE [version |-> h.version,
                    command |-> h.command,
                    data_length |-> h.data_length,
                    data |-> data,
                    checksum |-> received_checksum,
                    parsed_data_units |-> parse_data_units(data)]

(***************************************************************************)
(* Inputs                                                                  *)
(***************************************************************************)
\* Bounds of the model
MaxUnits == 2
MaxRaw == 4
MaxPayload == 2
MaxStream == 5
MaxNoise == 2

\* All sequences over S of length at most n
SeqsUpTo(S, n) == UNION {[1..k -> S] : k \in 0..n}

\* The big-endian two-byte form of a length
be16(n) == <<n \div 256, n % 256>>

\* The bytes of one data unit: ID(1) TYPE(1) VLEN(2,BE) VALUE(VLEN)
unit_bytes(id, type, value) == <<id, type>> \o be16(Len(value)) \o value

NoResult == [none |-> TRUE]

(***************************************************************************)
(* SpecUnits: parse_data_units, one loop iteration per step                *)
(***************************************************************************)
UnitTypes == 0..6
UnitSet ==
    {unit_bytes(1, t, <<1>>) : t \in UnitTypes}
    \cup {unit_bytes(1, 2, <<0, 0, 0, 123>>), unit_bytes(2, 2, <<0, 0, 1>>),
          unit_bytes(2, 2, <<255, 255, 255, 133>>),
          unit_bytes(2, 5, <<255, 255, 255, 133>>), unit_bytes(2, 1, <<>>),
          unit_bytes(2, 1, <<0>>), unit_bytes(2, 3, <<85, 170>>),
          unit_bytes(2, 4, <<>>), unit_bytes(2, 255, <<1>>),
          unit_bytes(2, 1, <<1, 0>>), unit_bytes(1, 5, <<0, 0, 1, 0>>)}

\* What may follow the last whole unit: nothing, a cut header, a cut value,
\* a header announcing more than 255 bytes
UnitTails == {<<>>, <<9>>, <<7, 2, 0, 4, 0, 0>>, <<7, 0, 1, 0, 5>>}

RECURSIVE flatten(_)
flatten(ss) == IF ss = <<>> THEN <<>> ELSE Head(ss) \o flatten(Tail(ss))

UnitPayloads ==
    {flatten(us) \o t : us \in SeqsUpTo(UnitSet, MaxUnits), t \in UnitTails}
    \cup SeqsUpTo({0, 1, 4}, MaxRaw)

StreamOff ==
    /\ stream = <<>> /\ rd = 0 /\ reads = <<>> /\ chunk = <<>>
    /\ buffer = <<>> /\ drain_in = <<>> /\ unemptied = <<>> /\ packet_count = 0
    /\ attempts = <<>> /\ orphans = <<>> /\ emitted = <<>> /\ pc = "off"

PacketOff ==
    pk_data = <<>> /\ pk_result = NoResult /\ pk_prev = <<>> /\ pk_pc = "off"

UnitsOff ==
    du_data = <<>> /\ du_offset = 0 /\ parsed_dps = <<>> /\ du_pc = "off"

\* Lines 24-25
InitUnits ==
    /\ du_data \in UnitPayloads
    /\ du_offset = 0
    /\ parsed_dps = <<>>
    /\ du_pc = "while"
    /\ StreamOff /\ PacketOff

\* The state one iteration leaves
DUStep ==
    LET r == du_iteration(du_data, du_offset, parsed_dps)
    IN /\ du_offset' = r.offset
       /\ parsed_dps' = r.parsed_dps
       /\ du_pc' = IF r.brk THEN "done" ELSE "while"
       /\ UNCHANGED <<du_data, streamVars, packetVars>>

\* Lines 28-30: fewer than 4 bytes remain; append the error and break
DUHeaderIncomplete ==
    /\ du_pc = "while" /\ more_units(du_data, du_offset)
    /\ header_incomplete(du_data, du_offset)
    /\ DUStep

\* Lines 33-49: the header is read, the value is cut short; append the error
\* and break
DUValueIncomplete ==
    /\ du_pc = "while" /\ more_units(du_data, du_offset)
    /\ ~header_incomplete(du_data, du_offset)
    /\ value_incomplete(du_data, du_offset)
    /\ DUStep

\* Lines 33-87: a whole data unit is read, decoded and appended
DUAppendUnit ==
    /\ du_pc = "while" /\ more_units(du_data, du_offset)
    /\ ~header_incomplete(du_data, du_offset)
    /\ ~value_incomplete(du_data, du_offset)
    /\ DUStep

\* Lines 26 and 89: the loop condition fails; return parsed_dps
DUReturn ==
    /\ du_pc = "while" /\ ~more_units(du_data, du_offset)
    /\ du_pc' = "done"
    /\ UNCHANGED <<du_data, du_offset, parsed_dps, streamVars, packetVars>>

NextUnits == DUHeaderIncomplete \/ DUValueIncomplete \/ DUAppendUnit \/ DUReturn

SpecUnits == InitUnits /\ [][NextUnits]_vars

\* The loop is sequential code: a step that can be taken is taken
SpecUnitsFair == SpecUnits /\ WF_vars(NextUnits)

(***************************************************************************)
(* SpecPacket: parse_tuya_packet on frames from a bounded set              *)
(***************************************************************************)
PkVersions == {0, 3, 86, 255}
PkCommands == {0, 85, 258, 65535}
PkPayloads ==
    SeqsUpTo({0, 1, 170}, MaxPayload)
    \cup {<<85>>, <<1, 1, 0, 1, 1>>, <<1, 2, 0, 4, 0, 0, 0, 123>>,
          <<1, 2, 0, 3, 0, 0, 1, 2, 1, 0, 1, 1>>}
PkTrailers == {<<0>>, <<85, 170>>}
MutationBytes == {0, 1, 86, 128, 255}

\* VERSION COMMAND(2,BE) LEN(1) of a frame
frame_header(version, command, payload) ==
    <<version>> \o be16(command) \o <<Len(payload)>>

\* A frame as a sender builds it, the checksum taken over every byte before it
make_frame(version, command, payload) ==
    LET body == PACKET_MARKER \o frame_header(version, command, payload) \o payload
    IN body \o <<sum(body) % 256>>

\* The same frame with another checksum byte
frame_with_checksum(version, command, payload, ck) ==
    PACKET_MARKER \o frame_header(version, command, payload) \o payload \o <<ck>>

\* The checksum bytes tried for a frame: the sum over every preceding byte,
\* the sum over VERSION..PAYLOAD alone, and a wrong one
ChecksumChoices(version, command, payload) ==
    LET inner == frame_header(version, command, payload) \o payload
    IN {sum(PACKET_MARKER \o inner) % 256, sum(inner) % 256,
        (sum(PACKET_MARKER \o inner) + 1) % 256}

\* A frame, each of its prefixes, and the frame followed by trailing bytes
FrameCuts(f) ==
    {SubSeq(f, 1, k) : k \in 0..Len(f)} \cup {f \o t : t \in PkTrailers}

FramesOf(version, command, payload) ==
    UNION {FrameCuts(frame_with_checksum(version, command, payload, ck)) :
              ck \in ChecksumChoices(version, command, payload)}

PacketInputs ==
    UNION {FramesOf(v, c, p) : v \in PkVersions, c \in PkCommands, p \in PkPayloads}

InitPacket ==
    /\ pk_data \in PacketInputs
    /\ pk_result = NoResult
    /\ pk_prev = <<>>
    /\ pk_pc = "call"
    /\ StreamOff /\ UnitsOff

\* The call parse_tuya_packet(packet_data) and its return
ParsePacket ==
    /\ pk_pc = "call"
    /\ pk_result' = parse_tuya_packet(pk_data)
    /\ pk_pc' = "done"
    /\ UNCHANGED <<pk_data, pk_prev, streamVars, unitVars>>

\* The frame with payload byte i (0-based) set to b
with_payload_byte(f, i, b) == [f EXCEPT ![6 + i + 1] = b]

\* An accepted frame is corrupted: one payload byte takes another value,
\* header and checksum byte kept, and the frame is decoded again
MutatePayload ==
    /\ pk_pc = "done" /\ pk_prev = <<>> /\ ~is_error(pk_result)
    /\ \E i \in 0..(pk_result.data_length - 1), b \in MutationBytes :
         /\ b # pk_data[6 + i + 1]
         /\ pk_data' = with_payload_byte(pk_data, i, b)
    /\ pk_prev' = pk_data
    /\ pk_result' = NoResult
    /\ pk_pc' = "call"
    /\ UNCHANGED <<streamVars, unitVars>>

NextPacket == ParsePacket \/ MutatePayload

SpecPacket == InitPacket /\ [][NextPacket]_vars

(***************************************************************************)
(* Spec: the read loop of read_and_hexdump_packets                         *)
(***************************************************************************)
\* ser.read(1024)
READ_SIZE == 1024

\* The bytes of a sequence of buffer cells
val(cells) == [i \in 1..Len(cells) |-> cells[i].b]

\* The stream offsets of a sequence of buffer cells
offsets(cells) == [i \in 1..Len(cells) |-> cells[i].at]

\* Bytes a..b-1 of the stream as buffer cells
stream_cells(a, b) == [i \in 1..(b - a) |-> [b |-> stream[a + i], at |-> a + i - 1]]

\* `PACKET_MARKER in buffer`
has_marker(cells) == contains(val(cells), PACKET_MARKER)

\* Faulty variant: the bytes before the marker are reported but not dropped
\* (line 180 missing)
drain_iteration_keep_orphan(buf) ==
    LET marker_index == find(val(buf), PACKET_MARKER)
        buf2 == slice_from(buf, Len(PACKET_MARKER))
        next_marker_index == find(val(buf2), PACKET_MARKER)
    IN [orphan |-> IF marker_index > 0 THEN slice(buf, 0, marker_index) ELSE <<>>,
        packet_data |-> IF next_marker_index = -1 THEN buf2
                        ELSE slice(buf2, 0, next_marker_index),
        buffer |-> IF next_marker_index = -1 THEN <<>>
                   ELSE slice_from(buf2, next_marker_index)]

\* Faulty variant: the buffer kept from one byte past the next marker's index
\* (line 191 off by one)
drain_iteration_skip_one(buf) ==
    LET marker_index == find(val(buf), PACKET_MARKER)
        buf1 == IF marker_index > 0 THEN slice_from(buf, marker_index) ELSE buf
        buf2 == slice_from(buf1, Len(PACKET_MARKER))
        next_marker_index == find(val(buf2), PACKET_MARKER)
    IN [orphan |-> IF marker_index > 0 THEN slice(buf, 0, marker_index) ELSE <<>>,
        packet_data |-> IF next_marker_index = -1 THEN buf2
                        ELSE slice(buf2, 0, next_marker_index),
        buffer |-> IF next_marker_index = -1 THEN <<>>
                   ELSE slice_from(buf2, next_marker_index + 1)]

\* Faulty variant: the candidate cut one byte short when another marker
\* follows (line 190 off by one)
drain_iteration_short(buf) ==
    LET marker_index == find(val(buf), PACKET_MARKER)
        buf1 == IF marker_index > 0 THEN slice_from(buf, marker_index) ELSE buf
        buf2 == slice_from(buf1, Len(PACKET_MARKER))
        next_marker_index == find(val(buf2), PACKET_MARKER)
    IN [orphan |-> IF marker_index > 0 THEN slice(buf, 0, marker_index) ELSE <<>>,
        packet_data |-> IF next_marker_index = -1 THEN buf2
                        ELSE slice(buf2, 0, next_marker_index - 1),
        buffer |-> IF next_marker_index = -1 THEN <<>>
                   ELSE slice_from(buf2, next_marker_index)]

\* Faulty variant: everything after the marker is taken as the packet, a
\* later marker or not
drain_iteration_whole(buf) ==
    LET marker_index == find(val(buf), PACKET_MARKER)
        buf1 == IF marker_index > 0 THEN slice_from(buf, marker_index) ELSE buf
        buf2 == slice_from(buf1, Len(PACKET_MARKER))
    IN [orphan |-> IF marker_index > 0 THEN slice(buf, 0, marker_index) ELSE <<>>,
        packet_data |-> buf2,
        buffer |-> <<>>]

\* Faulty variant: the packet runs to the last marker of the buffer instead
\* of the next one
drain_iteration_rfind(buf) ==
    LET marker_index == find(val(buf), PACKET_MARKER)
        buf1 == IF marker_index > 0 THEN slice_from(buf, marker_index) ELSE buf
        buf2 == slice_from(buf1, Len(PACKET_MARKER))
        mp == {i \in 0..(Len(buf2) - 2) : slice(val(buf2), i, i + 2) = PACKET_MARKER}
        next_marker_index == IF mp = {} THEN -1
                             ELSE CHOOSE i \in mp : \A j \in mp : j <= i
    IN [orphan |-> IF marker_index > 0 THEN slice(buf, 0, marker_index) ELSE <<>>,
        packet_data |-> IF next_marker_index = -1 THEN buf2
                        ELSE slice(buf2, 0, next_marker_index),
        buffer |-> IF next_marker_index = -1 THEN <<>>
                   ELSE slice_from(buf2, next_marker_index)]

\* One iteration of the inner while loop (lines 175-191) on a buffer that
\* contains the marker: the bytes reported as unexpected (empty when the
\* marker is at index 0), packet_data, and the buffer it leaves
drain_iteration(buf) ==
    LET marker_index == find(val(buf), PACKET_MARKER)
        buf1 == IF marker_index > 0 THEN slice_from(buf, marker_index) ELSE buf
        buf2 == slice_from(buf1, Len(PACKET_MARKER))
        next_marker_index == find(val(buf2), PACKET_MARKER)
    IN [orphan |-> IF marker_index > 0 THEN slice(buf, 0, marker_index) ELSE <<>>,
        packet_data |-> IF next_marker_index = -1 THEN buf2
                        ELSE slice(buf2, 0, next_marker_index),
        buffer |-> IF next_marker_index = -1 THEN <<>>
                   ELSE slice_from(buf2, next_marker_index)]

\* Line 175: where in the stream the marker found by buffer.find begins
marker_offset(buf) == buf[find(val(buf), PACKET_MARKER) + 1].at

\* Line 184 finds no further marker after the one consumed
last_marker(buf) ==
    LET marker_index == find(val(buf), PACKET_MARKER)
    IN find(val(slice_from(buf, marker_index + Len(PACKET_MARKER))), PACKET_MARKER) = -1

\* Lines 155-156: nothing read yet
InitLoop ==
    /\ rd = 0 /\ reads = <<>> /\ chunk = <<>>
    /\ buffer = <<>> /\ drain_in = <<>> /\ unemptied = <<>> /\ packet_count = 0
    /\ attempts = <<>> /\ orphans = <<>> /\ emitted = <<>> /\ pc = "read"
    /\ PacketOff /\ UnitsOff

StreamBytes == {85, 170, 1}

\* Longer streams that hold whole frames: noise, a frame, a bare marker; a
\* frame whose payload is the two marker bytes; and a bare marker, a frame
\* with a wrong checksum and a well-formed frame
FramedStreams ==
    {<<1>> \o make_frame(0, 0, <<>>) \o PACKET_MARKER,
     make_frame(0, 0, PACKET_MARKER),
     PACKET_MARKER \o frame_with_checksum(0, 0, <<>>, 0) \o make_frame(3, 258, <<>>)}

Init ==
    /\ stream \in SeqsUpTo(StreamBytes, MaxStream) \cup FramedStreams
    /\ InitLoop

\* Lines 168-172: ser.read returns the next n bytes; buffer += chunk
ReadBytes(n) ==
    /\ pc = "read"
    /\ n >= 1 /\ n <= READ_SIZE /\ rd + n <= Len(stream)
    /\ chunk' = val(stream_cells(rd, rd + n))
    /\ buffer' = buffer \o stream_cells(rd, rd + n)
    /\ drain_in' = buffer'
    /\ unemptied' = unemptied \o stream_cells(rd, rd + n)
    /\ rd' = rd + n
    /\ reads' = Append(reads, n)
    /\ pc' = "drain"
    /\ UNCHANGED <<stream, packet_count, attempts, orphans, emitted, packetVars, unitVars>>

\* A read returns any non-empty part of what the device still has to deliver
ReadChunk == \E n \in 1..Len(stream) : ReadBytes(n)

\* Lines 168-170: the read times out with nothing; continue
ReadEmpty ==
    /\ pc = "read"
    /\ chunk' = <<>>
    /\ UNCHANGED <<stream, rd, reads, buffer, drain_in, unemptied, packet_count,
                   attempts, orphans, emitted, pc, packetVars, unitVars>>

\* Lines 174-197: one iteration of the drain loop; the candidate frame is
\* handed to parse_tuya_packet
DrainStep ==
    LET r == drain_iteration(buffer)
        frame == PACKET_MARKER \o val(r.packet_data)
    IN /\ buffer' = r.buffer
       /\ unemptied' = IF last_marker(buffer) THEN <<>> ELSE unemptied
       /\ packet_count' = packet_count + 1
       /\ orphans' = IF r.orphan # <<>> THEN Append(orphans, r.orphan) ELSE orphans
       /\ emitted' = emitted \o val(r.orphan) \o frame
       /\ attempts' = Append(attempts, [frame |-> frame,
                                        marker_at |-> marker_offset(buffer),
                                        at |-> offsets(r.packet_data),
                                        no |-> packet_count + 1,
                                        result |-> parse_tuya_packet(frame)])
       /\ UNCHANGED <<stream, rd, reads, chunk, drain_in, pc, packetVars, unitVars>>

\* The iteration when another marker follows (lines 189-191)
DrainToNextMarker ==
    /\ pc = "drain" /\ has_marker(buffer) /\ ~last_marker(buffer)
    /\ DrainStep

\* The iteration when no marker follows (lines 186-188)
DrainToEnd ==
    /\ pc = "drain" /\ has_marker(buffer) /\ last_marker(buffer)
    /\ DrainStep

\* Line 174 finds no marker: back to the read
DrainExit ==
    /\ pc = "drain" /\ ~has_marker(buffer)
    /\ pc' = "read"
    /\ UNCHANGED <<stream, rd, reads, chunk, buffer, drain_in, unemptied,
                   packet_count, attempts, orphans, emitted, packetVars, unitVars>>

Next == ReadChunk \/ ReadEmpty \/ DrainToNextMarker \/ DrainToEnd \/ DrainExit

Spec == Init /\ [][Next]_vars

(***************************************************************************)
(* SpecOneRead: noise ++ frame ++ noise delivered by a single read         *)
(***************************************************************************)
\* Well-formed frames whose bytes after the leading marker hold no marker
OneReadVersions == {0, 86}
OneReadCommands == {0, 258}
OneReadPayloads == {<<>>, <<85>>, <<1, 1, 0, 1, 1>>}

clean_frame(f) == ~contains(slice_from(f, Len(PACKET_MARKER)), PACKET_MARKER)

CleanFrames ==
    {f \in {make_frame(v, c, p) : v \in OneReadVersions, c \in OneReadCommands,
                                  p \in OneReadPayloads} : clean_frame(f)}

Noise == SeqsUpTo(StreamBytes, MaxNoise)

InitOneRead ==
    /\ stream \in {n1 \o f \o n2 : n1 \in Noise, f \in CleanFrames, n2 \in Noise}
    /\ InitLoop

\* The one read returns the whole stream
ReadAll == ReadBytes(Len(stream))

NextOneRead == ReadAll \/ ReadEmpty \/ DrainToNextMarker \/ DrainToEnd \/ DrainExit

SpecOneRead == InitOneRead /\ [][NextOneRead]_vars

(***************************************************************************)
(* Claims about parse_tuya_packet (SpecPacket)                             *)
(***************************************************************************)
PkDone == pk_pc = "done"

\* The declared length of a frame of at least 6 bytes: the byte at offset 5
declared_len(f) == f[6]

LongEnough(f) == Len(f) >= 7 /\ Len(f) >= 7 + declared_len(f)

\* C2 as stated: a frame of sufficient length is accepted exactly when its
\* checksum byte is the sum mod 256 of the VERSION, COMMAND, LEN and PAYLOAD
\* bytes, the two marker bytes left out of the sum.
C2_MarkerExcluded ==
    (PkDone /\ LongEnough(pk_data)) =>
        (~is_error(pk_result) <=>
            pk_data[7 + declared_len(pk_data)]
                = sum(slice(pk_data, 2, 6 + declared_len(pk_data))) % 256)

\* C2 amended: a frame of sufficient length is accepted exactly when its
\* checksum byte is the sum mod 256 of every byte before it, the two marker
\* bytes included.
C2_MarkerIncluded ==
    (PkDone /\ LongEnough(pk_data)) =>
        (~is_error(pk_result) <=>
            pk_data[7 + declared_len(pk_data)]
                = sum(slice(pk_data, 0, 6 + declared_len(pk_data))) % 256)

\* A frame carrying the marker-excluded sum has been rejected
C2_Witness ==
    /\ PkDone /\ LongEnough(pk_data)
    /\ pk_data[7 + declared_len(pk_data)]
           = sum(slice(pk_data, 2, 6 + declared_len(pk_data))) % 256
    /\ is_error(pk_result)
    /\ pk_result.error = "Checksum mismatch"

\* C3: an accepted frame with exactly one payload byte changed to another
\* value, header and checksum byte kept, is rejected with 'Checksum
\* mismatch'; it never decodes to a Packet.
C3_MutationDetected ==
    (PkDone /\ pk_prev # <<>>) =>
        (is_error(pk_result) /\ pk_result.error = "Checksum mismatch")

C3_Witness ==
    /\ PkDone /\ pk_prev # <<>>
    /\ Len(pk_prev) = Len(pk_data)
    /\ Cardinality({i \in 1..Len(pk_data) : pk_data[i] # pk_prev[i]}) = 1
    /\ is_error(pk_result)

\* C9: the outcome, in order: 'Packet too short' below 7 bytes; else 'too
\* short for declared data length' below 7 + LEN bytes; else 'Checksum
\* mismatch' with the calculated value, the received value and the raw frame
\* when the byte at offset 6+LEN is not sum(frame[0:6+LEN]) mod 256; else a
\* Packet with len(data) = data_length and checksum = that sum.  No result
\* has both an error and packet fields.
PacketFields ==
    {"version", "command", "data_length", "data", "checksum", "parsed_data_units"}

C9_Classification ==
    PkDone =>
        LET n == Len(pk_data)
        IN /\ IF n < 7
              THEN is_error(pk_result) /\ pk_result.error = "Packet too short"
                   /\ pk_result.raw_data = pk_data
              ELSE IF n < 7 + declared_len(pk_data)
              THEN is_error(pk_result)
                   /\ pk_result.error =
                        "Packet too short for declared data length ("
                        \o ToString(declared_len(pk_data)) \o " bytes)"
                   /\ pk_result.raw_data = pk_data
              ELSE
                LET total == sum(slice(pk_data, 0, 6 + declared_len(pk_data))) % 256
                    got == pk_data[7 + declared_len(pk_data)]
                IN IF got # total
                   THEN is_error(pk_result) /\ pk_result.error = "Checksum mismatch"
                        /\ pk_result.calculated = total
                        /\ pk_result.received = got
                        /\ pk_result.raw_data = pk_data
                   ELSE ~is_error(pk_result)
                        /\ DOMAIN pk_result = PacketFields
                        /\ Len(pk_result.data) = pk_result.data_length
                        /\ pk_result.checksum = total
           /\ is_error(pk_result) => DOMAIN pk_result \cap PacketFields = {}

\* Every one of the four outcomes is classified: here the second
C9_Witness ==
    /\ PkDone
    /\ Len(pk_data) = 8
    /\ declared_len(pk_data) = 2
    /\ is_error(pk_result)
    /\ pk_result.raw_data = pk_data

(***************************************************************************)
(* Claims about parse_data_units (SpecUnits, SpecUnitsFair)                *)
(***************************************************************************)
DUDone == du_pc = "done"

\* A type tag and a declared length that do not go together
type_length_mismatch(dp_type, dp_length) ==
    \/ dp_type \in {2, 5} /\ dp_length # 4
    \/ dp_type = 4 /\ dp_length # 1
    \/ dp_type > 5

\* The offset in the payload of the unit behind record k, all records before
\* it being data-unit records
RECURSIVE unit_start(_, _)
unit_start(parsed, k) ==
    IF k <= 1 THEN 0
    ELSE unit_start(parsed, k - 1) + 4 + parsed[k - 1].dp_length

\* The iteration at a whole unit with a mismatch appends one record that
\* keeps the header fields and the raw value and has an error dictionary as
\* dp_value, moves the cursor by 4 + VLEN and stays in the loop
C7_Step ==
    LET h == unpack_BBH(slice(du_data, du_offset, du_offset + 4))
        v == slice(du_data, du_offset + 4, du_offset + 4 + h.dp_length)
    IN (/\ du_pc = "while"
        /\ du_offset + 4 <= Len(du_data)
        /\ du_offset + 4 + h.dp_length <= Len(du_data)
        /\ type_length_mismatch(h.dp_type, h.dp_length))
       => /\ du_pc' = "while"
          /\ du_offset' = du_offset + 4 + h.dp_length
          /\ Len(parsed_dps') = Len(parsed_dps) + 1
          /\ SubSeq(parsed_dps', 1, Len(parsed_dps)) = parsed_dps
          /\ LET r == parsed_dps'[Len(parsed_dps')]
             IN /\ ~is_error(r)
                /\ r.dp_id = h.dp_id /\ r.dp_type = h.dp_type
                /\ r.dp_length = h.dp_length
                /\ r.raw_value = v
                /\ r.dp_value.py = "dict"
                /\ "error" \in DOMAIN r.dp_value
                /\ r.dp_value.raw_value = v

\* In the returned list, every record of a mismatching unit is followed (and
\* preceded) by exactly the records the payload yields when that unit's type
\* tag is replaced by Raw (0), a well-formed unit of the same total length
C7_Final ==
    DUDone =>
        \A k \in 1..Len(parsed_dps) :
            LET r == parsed_dps[k]
            IN (~is_error(r) /\ type_length_mismatch(r.dp_type, r.dp_length)) =>
                 LET wf == [du_data EXCEPT ![unit_start(parsed_dps, k) + 2] = 0]
                     ref == parse_data_units(wf)
                 IN /\ r.dp_value.py = "dict"
                    /\ Len(ref) = Len(parsed_dps)
                    /\ \A j \in 1..Len(ref) : j # k => ref[j] = parsed_dps[j]
                    /\ ref[k].raw_value = r.raw_value

\* C7: a type/length mismatch or an unknown type tag on a unit whose value
\* bytes are all present is not fatal: its record is appended with an error
\* variant as dp_value and the raw value kept, the cursor advances by
\* 4 + VLEN, and every following unit is decoded as if a well-formed unit of
\* the same total length preceded it.
C7_FieldErrorNotFatal == [][C7_Step]_vars /\ [](C7_Final)

\* An Integer32 unit with VLEN = 3 is followed by a unit that decodes to 123
C7_Witness ==
    /\ DUDone
    /\ Len(parsed_dps) = 2
    /\ ~is_error(parsed_dps[1]) /\ ~is_error(parsed_dps[2])
    /\ parsed_dps[1].dp_type = 2 /\ parsed_dps[1].dp_length = 3
    /\ parsed_dps[1].dp_value.py = "dict"
    /\ parsed_dps[2].dp_type = 2 /\ parsed_dps[2].dp_value.py = "int"
    /\ parsed_dps[2].dp_value.v = 123

\* C8: parse_data_units terminates on every payload: each iteration either
\* leaves the loop or moves the cursor forward by at least 4, the cursor
\* never passes len(payload), and the return is always reached with a
\* sequence of records.
C8_Terminates ==
    /\ [](du_offset <= Len(du_data))
    /\ [][du_pc' = "done" \/ du_offset' >= du_offset + 4]_vars
    /\ [](DUDone => \A i \in 1..Len(parsed_dps) :
                        \/ is_error(parsed_dps[i])
                        \/ DOMAIN parsed_dps[i] =
                             {"dp_id", "dp_type", "dp_length", "dp_value", "raw_value"})
    /\ <>DUDone

\* The loop ran twice, over two whole units, and returned at the end of the
\* payload
C8_Witness ==
    /\ DUDone
    /\ Len(parsed_dps) = 2
    /\ ~is_error(parsed_dps[2])
    /\ du_offset = Len(du_data)
    /\ du_offset > 8

(***************************************************************************)
(* Claims about the read loop (Spec, SpecOneRead)                          *)
(***************************************************************************)
\* Everything the device had has been read and drained
Drained == pc = "read" /\ rd = Len(stream) /\ rd > 0

\* The 0-based offsets at which the marker occurs in a byte sequence
marker_positions(s) ==
    {i \in 0..(Len(s) - Len(PACKET_MARKER)) :
        slice(s, i, i + Len(PACKET_MARKER)) = PACKET_MARKER}

\* The stream is F1 ++ F2, each frame beginning with the marker and holding
\* no other occurrence of it: the marker occurs at offset 0 and at one other
\* offset, where F2 begins
TwoFrames == Cardinality(marker_positions(stream)) = 2 /\ 0 \in marker_positions(stream)

F2Start == CHOOSE i \in marker_positions(stream) : i # 0

\* The offsets a..b-1
offset_range(a, b) == [i \in 1..(b - a) |-> a + i - 1]

\* Exactly two decode attempts were made, the first on F1 and the second on
\* F2, the body of each candidate being the bytes of that frame alone
TwoCleanAttempts ==
    /\ Len(attempts) = 2
    /\ attempts[1].frame = slice(stream, 0, F2Start)
    /\ attempts[1].at = offset_range(Len(PACKET_MARKER), F2Start)
    /\ attempts[2].frame = slice_from(stream, F2Start)
    /\ attempts[2].at = offset_range(F2Start + Len(PACKET_MARKER), Len(stream))

\* The offsets in the stream at which one read ended and the next began
read_cuts == {c \in 1..(rd - 1) : \E k \in 1..Len(reads) : c = sum(SubSeq(reads, 1, k))}

\* C4 as stated: two back-to-back frames, under any split of the stream into
\* non-empty read chunks, give exactly two decode attempts, on exactly F1 and
\* exactly F2.
C4_AnySplit == (TwoFrames /\ Drained) => TwoCleanAttempts

\* Every read boundary lies between the two frames, or directly after the
\* first byte of a frame when that byte begins a read chunk
CutsRespectFrames ==
    /\ read_cuts \subseteq {1, F2Start, F2Start + 1}
    /\ (F2Start + 1) \in read_cuts => F2Start \in read_cuts

\* C4 amended: two back-to-back frames give exactly two decode attempts, on
\* exactly F1 and exactly F2, when (and only when) no read boundary falls
\* inside a frame other than directly after a leading 0x55 that begins a
\* read chunk; any other split hands the decoder a cut frame.
C4_SplitAtFrames == (TwoFrames /\ Drained) => (TwoCleanAttempts <=> CutsRespectFrames)

\* Two frames with bodies were delivered as F1, then F2, and decoded apart
C4_Witness ==
    /\ TwoFrames /\ Drained
    /\ Len(reads) = 2 /\ reads[1] = F2Start /\ F2Start > 2
    /\ TwoCleanAttempts

\* C5: the bytes before the first marker of the stream are never part of a
\* frame candidate handed to parse_tuya_packet, whatever the read chunks (so
\* never in a decoded payload); when the marker is consumed they are
\* reported as unexpected data, and nothing else is done with them.
C5_OrphansNeverDecoded ==
    LET m == find(stream, PACKET_MARKER)
    IN /\ \A k \in 1..Len(attempts) :
            /\ m # -1
            /\ \A i \in 1..Len(attempts[k].at) : attempts[k].at[i] >= m + Len(PACKET_MARKER)
            /\ attempts[k].frame =
                 PACKET_MARKER \o [i \in 1..Len(attempts[k].at) |-> stream[attempts[k].at[i] + 1]]
       /\ (attempts # <<>> /\ m > 0) =>
            (orphans # <<>> /\ offsets(orphans[1]) = offset_range(0, m))
       /\ \A k \in 1..Len(orphans) : \A i \in 1..Len(orphans[k]) :
            \A j \in 1..Len(attempts) : \A l \in 1..Len(attempts[j].at) :
                attempts[j].at[l] # orphans[k][i].at

\* Two bytes of noise arrived in a read of their own, before a frame
C5_Witness ==
    /\ find(stream, PACKET_MARKER) = 2
    /\ Len(reads) >= 2 /\ reads[1] = 2
    /\ attempts # <<>> /\ Len(attempts[1].at) >= 1
    /\ orphans # <<>>

\* The cells of a buffer that follow its last marker occurrence
after_last_marker(cells) ==
    LET mp == marker_positions(val(cells))
        last == CHOOSE i \in mp : \A j \in mp : j <= i
    IN slice_from(cells, last + Len(PACKET_MARKER))

\* C10: after each drain the buffer holds no marker; if the buffer drained
\* held a marker the buffer is empty afterwards; otherwise it is unchanged
\* and holds every byte read since it was last emptied.  In the first case
\* the bytes after the last marker went to the decoder at once.
C10_BufferAfterDrain ==
    (pc = "read" /\ rd > 0) =>
        /\ ~has_marker(buffer)
        /\ has_marker(drain_in) =>
              /\ buffer = <<>>
              /\ attempts # <<>>
              /\ attempts[Len(attempts)].at = offsets(after_last_marker(drain_in))
        /\ ~has_marker(drain_in) => (buffer = drain_in /\ buffer = unemptied)

\* A drain that consumed two markers left the buffer empty although bytes
\* followed the last marker
C10_Witness ==
    /\ pc = "read" /\ rd > 0
    /\ Cardinality(marker_positions(val(drain_in))) = 2
    /\ val(drain_in)[Len(drain_in)] # PACKET_MARKER[2]
    /\ buffer = <<>>

\* A drain without a marker kept what two reads had delivered
C10_WitnessKept ==
    /\ pc = "read" /\ Len(reads) = 2
    /\ ~has_marker(drain_in)
    /\ Len(buffer) = rd /\ rd >= 2

\* C6: a stream N1 ++ F ++ N2 delivered in a single read, F a well-formed
\* frame with a correct checksum and no marker after its leading one, N1 and
\* N2 arbitrary: one of the decode attempts returns the Packet of F.
C6_NoiseTolerance ==
    Drained =>
        \A v \in OneReadVersions, c \in OneReadCommands, p \in OneReadPayloads :
            \A n1 \in Noise, n2 \in Noise :
                (/\ Len(stream) = Len(n1) + Len(p) + 7 + Len(n2)
                 /\ clean_frame(make_frame(v, c, p))
                 /\ stream = n1 \o make_frame(v, c, p) \o n2)
                => \E k \in 1..Len(attempts) :
                       /\ ~is_error(attempts[k].result)
                       /\ attempts[k].result.version = v
                       /\ attempts[k].result.command = c
                       /\ attempts[k].result.data = p

\* The k-th smallest element (k from 1) of a finite set of numbers
kth(S, k) == CHOOSE x \in S : Cardinality({y \in S : y < x}) = k - 1

\* The attempts whose marker lay in the buffer that the last drain began with
attempts_of_drain ==
    {j \in 1..Len(attempts) :
        \E c \in 1..Len(drain_in) : drain_in[c].at = attempts[j].marker_at}

\* C11: when a drain of a buffer holding k occurrences of the marker has
\* finished, exactly k decode attempts were made in it and they are the last
\* k of all; the i-th is on the i-th marker of the buffer followed by the
\* bytes up to the next marker, or to the end of the buffer for the last,
\* whether the attempts before it gave a Packet or an error; the packet
\* counter numbers the attempts, so it has grown by k.
C11_OneAttemptPerMarker ==
    (pc = "read") =>
        LET mp == marker_positions(val(drain_in))
            k == Cardinality(mp)
            n == Len(attempts)
        IN /\ packet_count = n
           /\ \A j \in 1..n : attempts[j].no = j
           /\ attempts_of_drain = (n - k + 1)..n
           /\ \A i \in 1..k :
                LET m == kth(mp, i)
                    e == IF i = k THEN Len(drain_in) ELSE kth(mp, i + 1)
                    body == slice(drain_in, m + Len(PACKET_MARKER), e)
                    a == attempts[n - k + i]
                IN /\ a.marker_at = drain_in[m + 1].at
                   /\ a.frame = PACKET_MARKER \o val(body)
                   /\ a.at = offsets(body)
                   /\ a.result = parse_tuya_packet(a.frame)

\* One drain of two markers after an earlier drain: the attempt on the first
\* gave a checksum error, the attempt on the second a Packet
C11_Witness ==
    /\ pc = "read"
    /\ Cardinality(marker_positions(val(drain_in))) = 2
    /\ Len(attempts) = 3
    /\ attempts_of_drain = {2, 3}
    /\ is_error(attempts[2].result)
    /\ attempts[2].result.error = "Checksum mismatch"
    /\ ~is_error(attempts[3].result)
    /\ attempts[3].result.command = 258

\* C12: parse_data_units of the empty byte string is the empty list, and a
\* frame whose declared length is 0 and whose checksum is right decodes to a
\* Packet with empty data and no data units, bytes after the frame or not.
C12_EmptyPayload ==
    /\ parse_data_units(<<>>) = <<>>
    /\ (/\ PkDone
        /\ LongEnough(pk_data)
        /\ declared_len(pk_data) = 0
        /\ pk_data[7] = calculate_checksum(slice(pk_data, 0, 6)))
       => /\ ~is_error(pk_result)
          /\ pk_result.data_length = 0
          /\ pk_result.data = <<>>
          /\ pk_result.parsed_data_units = <<>>

\* The 7-byte frame of version 3 and command 0x0102 was decoded
C12_Witness ==
    /\ PkDone
    /\ pk_data = <<85, 170, 3, 1, 2, 0, 5>>
    /\ ~is_error(pk_result)
    /\ pk_result.parsed_data_units = <<>>

\* The bytes of the payload that the data-unit records of a list account for:
\* 4 header bytes and dp_length value bytes for each
RECURSIVE units_size(_)
units_size(parsed) ==
    IF parsed = <<>> THEN 0
    ELSE IF is_error(parsed[Len(parsed)]) THEN units_size(SubSeq(parsed, 1, Len(parsed) - 1))
    ELSE units_size(SubSeq(parsed, 1, Len(parsed) - 1)) + 4 + parsed[Len(parsed)].dp_length

\* C13: the list returned holds at most one truncation error record and only
\* as its last element; every record before it is a data-unit record whose
\* raw_value has dp_length bytes.  With 1 to 3 bytes left at the cursor the
\* error is "Incomplete data unit" and its raw_data is exactly those bytes;
\* with a whole header but fewer than dp_length bytes after it the error
\* carries the header fields and its raw_data is the 4 header bytes followed
\* by all the bytes that remain.  Without an error record nothing remains.
C13_Truncation ==
    DUDone =>
        LET n == Len(parsed_dps)
            consumed == units_size(parsed_dps)
            rest == slice_from(du_data, consumed)
        IN /\ \A i \in 1..n : is_error(parsed_dps[i]) => i = n
           /\ \A i \in 1..n :
                ~is_error(parsed_dps[i]) =>
                    /\ DOMAIN parsed_dps[i] =
                           {"dp_id", "dp_type", "dp_length", "dp_value", "raw_value"}
                    /\ Len(parsed_dps[i].raw_value) = parsed_dps[i].dp_length
           /\ (n = 0 \/ ~is_error(parsed_dps[n])) <=> rest = <<>>
           /\ (Len(rest) \in 1..3) =>
                parsed_dps[n] = [error |-> "Incomplete data unit", raw_data |-> rest]
           /\ (Len(rest) >= 4) =>
                LET vlen == rest[3] * 256 + rest[4]
                IN /\ Len(rest) - 4 < vlen
                   /\ parsed_dps[n] =
                        [error |-> "Incomplete data unit value (expected "
                                       \o ToString(vlen) \o " bytes)",
                         dp_id |-> rest[1], dp_type |-> rest[2], dp_length |-> vlen,
                         raw_data |-> rest]

\* Two whole units were followed by a header announcing 4 bytes with 2 present
C13_Witness ==
    /\ DUDone
    /\ Len(parsed_dps) = 3
    /\ ~is_error(parsed_dps[1]) /\ ~is_error(parsed_dps[2])
    /\ is_error(parsed_dps[3])
    /\ parsed_dps[3].raw_data = <<7, 2, 0, 4, 0, 0>>

\* One whole unit was followed by fewer than 4 bytes
C13_WitnessHeader ==
    /\ DUDone
    /\ Len(parsed_dps) = 2
    /\ ~is_error(parsed_dps[1])
    /\ parsed_dps[2] = [error |-> "Incomplete data unit", raw_data |-> <<9>>]

\* b0 * 2^24 + b1 * 2^16 + b2 * 2^8 + b3 for four numbers below 2^31 in all
be32(b0, b1, b2, b3) == ((b0 * 256 + b1) * 256 + b2) * 256 + b3

\* C14: for a unit with a 4-byte value b0 b1 b2 b3 and
\* u = b0 * 2^24 + b1 * 2^16 + b2 * 2^8 + b3, type 2 decodes to u when
\* u < 2^31 and to u - 2^32 otherwise, and type 5 decodes to u.  u - 2^32 is
\* written -(2^32 - 1 - u) - 1 and the unsigned value is compared in its
\* two 16-bit halves and, from 2^31 up, as u - 2^31, so that every number
\* stays below 2^31.  The payload 01 02 00 04 00 00 00 7B decodes to exactly
\* one record, with dp_id 1 and dp_value 123.
C14_Integers ==
    DUDone =>
        /\ \A i \in 1..Len(parsed_dps) :
              LET r == parsed_dps[i]
              IN (~is_error(r) /\ r.dp_length = 4 /\ r.dp_type \in {2, 5}) =>
                   LET b == slice(du_data, unit_start(parsed_dps, i) + 4,
                                  unit_start(parsed_dps, i) + 8)
                   IN /\ r.dp_value.py = "int"
                      /\ r.dp_type = 2 =>
                            r.dp_value.v =
                              IF b[1] < 128 THEN be32(b[1], b[2], b[3], b[4])
                              ELSE -be32(255 - b[1], 255 - b[2], 255 - b[3], 255 - b[4]) - 1
                      /\ r.dp_type = 5 =>
                            /\ r.dp_value.v.hi \in 0..65535
                            /\ r.dp_value.v.lo \in 0..65535
                            /\ IF b[1] < 128
                               THEN r.dp_value.v.hi * 65536 + r.dp_value.v.lo
                                        = be32(b[1], b[2], b[3], b[4])
                               ELSE (r.dp_value.v.hi - 32768) * 65536 + r.dp_value.v.lo
                                        = be32(b[1] - 128, b[2], b[3], b[4])
        /\ du_data = <<1, 2, 0, 4, 0, 0, 0, 123>> =>
              /\ Len(parsed_dps) = 1
              /\ ~is_error(parsed_dps[1])
              /\ parsed_dps[1].dp_id = 1
              /\ parsed_dps[1].dp_value = [py |-> "int", v |-> 123]

\* FF FF FF 85 was decoded as a signed value, -123, and then as an unsigned
\* one, 2^32 - 123
C14_Witness ==
    /\ DUDone
    /\ Len(parsed_dps) = 2
    /\ ~is_error(parsed_dps[1]) /\ ~is_error(parsed_dps[2])
    /\ parsed_dps[1].dp_type = 2 /\ parsed_dps[1].raw_value = <<255, 255, 255, 133>>
    /\ parsed_dps[1].dp_value.v = -123
    /\ parsed_dps[2].dp_type = 5 /\ parsed_dps[2].raw_value = <<255, 255, 255, 133>>
    /\ parsed_dps[2].dp_value.v = [hi |-> 65535, lo |-> 65413]

\* The payload 01 02 00 04 00 00 00 7B was decoded
C14_WitnessExample ==
    /\ DUDone
    /\ du_data = <<1, 2, 0, 4, 0, 0, 0, 123>>
    /\ Len(parsed_dps) = 1

\* C15: a type-1 unit whose value is wholly present decodes to a boolean,
\* never to an error dictionary: true when the value is the single byte 01,
\* false for every other value, the empty one and longer ones included.
C15_Boolean ==
    DUDone =>
        \A i \in 1..Len(parsed_dps) :
            LET r == parsed_dps[i]
            IN (~is_error(r) /\ r.dp_type = 1) =>
                 LET start == unit_start(parsed_dps, i) + 4
                     b == slice(du_data, start, start + r.dp_length)
                 IN /\ Len(b) = r.dp_length
                    /\ r.dp_value.py = "bool"
                    /\ r.dp_value.v = (b = <<1>>)

\* The value 01 was decoded to true and the value 01 00 to false
C15_Witness ==
    /\ DUDone
    /\ Len(parsed_dps) = 2
    /\ ~is_error(parsed_dps[1]) /\ ~is_error(parsed_dps[2])
    /\ parsed_dps[1].dp_type = 1 /\ parsed_dps[1].raw_value = <<1>>
    /\ parsed_dps[1].dp_value.v = TRUE
    /\ parsed_dps[2].dp_type = 1 /\ parsed_dps[2].raw_value = <<1, 0>>
    /\ parsed_dps[2].dp_value.v = FALSE

\* The empty value was decoded to false
C15_WitnessEmpty ==
    /\ DUDone
    /\ Len(parsed_dps) >= 1
    /\ ~is_error(parsed_dps[1])
    /\ parsed_dps[1].dp_type = 1 /\ parsed_dps[1].dp_length = 0
    /\ parsed_dps[1].dp_value.v = FALSE

\* The frame proper of a packet that is long enough: its first 7 + LEN bytes
frame_proper(f) == slice(f, 0, 7 + declared_len(f))

\* C16: bytes after the 7 + LEN bytes of a frame do not change the outcome:
\* decoding the frame with any trailing bytes gives an error exactly when
\* decoding the frame alone does, the same error with the same calculated
\* and received checksums, and otherwise a Packet with the same version,
\* command, data_length, data, checksum and parsed data units.
C16_TrailingBytes ==
    (PkDone /\ LongEnough(pk_data)) =>
        LET alone == parse_tuya_packet(frame_proper(pk_data))
        IN /\ is_error(pk_result) <=> is_error(alone)
           /\ is_error(alone) =>
                /\ pk_result.error = alone.error
                /\ pk_result.calculated = alone.calculated
                /\ pk_result.received = alone.received
           /\ ~is_error(alone) => pk_result = alone

\* A frame with a one-unit payload followed by trailing bytes was decoded to
\* a Packet
C16_Witness ==
    /\ PkDone
    /\ LongEnough(pk_data)
    /\ Len(pk_data) > 7 + declared_len(pk_data)
    /\ ~is_error(pk_result)
    /\ Len(pk_result.parsed_data_units) = 1
    /\ pk_result = parse_tuya_packet(frame_proper(pk_data))

\* A frame with a wrong checksum followed by trailing bytes was rejected
C16_WitnessError ==
    /\ PkDone
    /\ LongEnough(pk_data)
    /\ Len(pk_data) > 7 + declared_len(pk_data)
    /\ is_error(pk_result)
    /\ pk_result.error = "Checksum mismatch"

\* The chunks read so far, concatenated: the reads return consecutive parts
\* of the stream, rd bytes in all
chunks_read == slice(stream, 0, rd)

\* C17: at every point of the loop, everything handed to the output so far
\* (each range reported as unexpected and each candidate frame, its marker
\* included, in the order of output) followed by the buffer is the
\* concatenation of the chunks read so far: no byte is lost, repeated or
\* moved.
C17_ByteConservation ==
    /\ sum(reads) = rd
    /\ emitted \o val(buffer) = chunks_read

\* After three reads, one range of unexpected bytes and two candidates, the
\* first of them a Packet, the whole stream has been put out
C17_Witness ==
    /\ Len(reads) = 3
    /\ Len(orphans) = 1
    /\ Len(attempts) = 2
    /\ ~is_error(attempts[1].result)
    /\ buffer = <<>>
    /\ emitted = stream

\* In the middle of a drain: a candidate has been put out and a marker is
\* still in the buffer
C17_WitnessMidDrain ==
    /\ pc = "drain"
    /\ Len(attempts) >= 1
    /\ has_marker(buffer)
    /\ Len(emitted) >= 9

\* The bytes a list of records stands for: for a data-unit record its header
\* (dp_id, dp_type, dp_length as two bytes, high byte first) and its
\* raw_value, for a truncation error record its raw_data
RECURSIVE records_bytes(_)
records_bytes(parsed) ==
    IF parsed = <<>> THEN <<>>
    ELSE LET r == Head(parsed)
         IN (IF is_error(r) THEN r.raw_data
             ELSE <<r.dp_id, r.dp_type>> \o be16(r.dp_length) \o r.raw_value)
            \o records_bytes(Tail(parsed))

\* C18: the records returned for a payload partition it: the header and
\* raw_value of each data-unit record, then the raw_data of the truncation
\* error record if there is one, concatenated in order, are the payload.
C18_PayloadPartition ==
    DUDone => records_bytes(parsed_dps) = du_data

\* A payload of a 4-byte unit, a second unit and a cut-off third one was
\* parsed to two records and an error
C18_Witness ==
    /\ DUDone
    /\ Len(parsed_dps) = 3
    /\ ~is_error(parsed_dps[1]) /\ parsed_dps[1].dp_length = 4
    /\ ~is_error(parsed_dps[2])
    /\ is_error(parsed_dps[3])
    /\ Len(du_data) > 12

\* C19: every byte sequence passed to parse_tuya_packet begins with the
\* marker and holds no other occurrence of it, so a frame that holds 55 AA
\* after its first two bytes (in its header, payload or checksum) is never
\* passed to the decoder whole.
C19_SingleMarker ==
    \A k \in 1..Len(attempts) :
        /\ marker_positions(attempts[k].frame) = {0}
        /\ attempts[k].frame = PACKET_MARKER \o [i \in 1..Len(attempts[k].at) |->
                                                  stream[attempts[k].at[i] + 1]]

\* One read of a stream of three markers gave three candidates, the second
\* of them cut where the third marker begins
C19_Witness ==
    /\ Len(reads) = 1
    /\ Len(attempts) = 3
    /\ attempts[2].frame = <<85, 170, 0, 0, 0, 0, 0>>
    /\ Cardinality(marker_positions(stream)) = 3

\* The well-formed frame 55 AA 00 00 00 02 55 AA 00, whose payload is the two
\* marker bytes, came in one read and was passed on as two candidates, each
\* too short to be a frame
C19_WitnessInner ==
    /\ stream = make_frame(0, 0, PACKET_MARKER)
    /\ Len(reads) = 1 /\ rd = Len(stream) /\ pc = "read"
    /\ Len(attempts) = 2
    /\ attempts[1].frame = <<85, 170, 0, 0, 0, 2>>
    /\ attempts[2].frame = <<85, 170, 0>>
    /\ is_error(attempts[1].result) /\ is_error(attempts[2].result)

====
